---- MODULE Spec2Model ----
(***************************************************************************)
(* Model of bissecao (src/metodo_bissecao.py): the bisection method for    *)
(* f(x) = 0 on [a, b].                                                     *)
(*                                                                         *)
(* Numbers.  Every abscissa (a, b, x, tol, the returned root) is a dyadic  *)
(* rational n / Scale, held as its numerator n.  Every value of f is a     *)
(* rational v / Scale^2, held as its numerator v.  Scale = 2^(MaxIter+1),  *)
(* so that the max_iter + 1 halvings a call can perform are exact; on      *)
(* these values IEEE double arithmetic is exact as well, so the model      *)
(* computes what the code computes.                                        *)
(***************************************************************************)
EXTENDS Integers, Sequences, FiniteSets, TLC

\* ------------------------------------------------------------------ bounds
\* largest max_iter a caller passes
MaxIter == 3
\* callers pass integer bounds a, b in -MaxAbs .. MaxAbs
MaxAbs == 2
\* callers pass tolerances 1/4, 1/2 and 1 .. MaxTol
MaxTol == 2

Scale == 2 ^ (MaxIter + 1)

Abs(v) == IF v < 0 THEN -v ELSE v

\* --------------------------------------------------------------- the callers
\* The callable f: a polynomial c2*x^2 + c1*x + c0, given by <<c2, c1, c0>>.
\* <<1, -1, -1>> is f1 of the source (x*x - x - 1).
Funcs ==
  { <<1, -1, -1>>,    \* x^2 - x - 1   (f1)
    <<0, 3, -1>>,     \* 3x - 1        (root 1/3, never a midpoint)
    <<0, -3, 1>>,     \* 1 - 3x
    <<0, 1, 0>>,      \* x             (root at an endpoint or a midpoint)
    <<1, 0, -1>>,     \* x^2 - 1       (two roots)
    <<-1, 0, 2>>,     \* 2 - x^2
    <<0, 0, 1>> }     \* 1             (no root)

\* f(x) for x = n / Scale, as a numerator over Scale^2
F(g, n) == g[1] * n * n + g[2] * n * Scale + g[3] * Scale * Scale

Bounds == { i * Scale : i \in -MaxAbs .. MaxAbs }
Tols == { Scale \div 4, Scale \div 2 } \cup { i * Scale : i \in 1 .. MaxTol }
MaxIters == 1 .. MaxIter

\* tol (a numerator over Scale) in the unit of the values of f
TolF(t) == t * Scale

VARIABLES
  f, a0, b0, tol, max_iter, verbose, return_history,  \* the call's arguments
  a, b,            \* working bounds (the parameters a, b, reassigned)
  fa, fb,          \* cached f(a), f(b)
  k, x, fx,        \* loop index, midpoint, f(midpoint)
  history,         \* list of (k, a, b, x, fx)
  printed,         \* number of lines written by print
  evals,           \* number of calls of f made so far
  pc,              \* "INITIAL", "SEARCHING", "DONE"
  outcome,         \* which statement ended the call
  ret              \* the returned value: <<root>> or <<root, history>>

vars == << f, a0, b0, tol, max_iter, verbose, return_history, a, b, fa, fb,
           k, x, fx, history, printed, evals, pc, outcome, ret >>

args == << f, a0, b0, tol, max_iter, verbose, return_history >>

\* ------------------------------------------------------ pieces of bissecao
\* lines 92-95: which endpoint, if any, is returned at once
FastPathBFirst(va, vb, t) ==
  IF Abs(vb) < TolF(t) THEN "b" ELSE IF Abs(va) < TolF(t) THEN "a" ELSE "none"

FastPathInclusive(va, vb, t) ==
  IF Abs(va) <= TolF(t) THEN "a" ELSE IF Abs(vb) <= TolF(t) THEN "b" ELSE "none"

FastPath(va, vb, t) ==
  IF Abs(va) < TolF(t) THEN "a" ELSE IF Abs(vb) < TolF(t) THEN "b" ELSE "none"

\* line 98
SameSign(va, vb) == va * vb > 0

\* line 102: for k in range(1, max_iter + 1) has another iteration to run
LoopRunsOnceMore(done, cap) == done <= cap

LoopContinues(done, cap) == done < cap

\* lines 103, 129: (a + b) / 2.0
MidpointPrecedence(lo, hi) == lo + hi \div 2

Midpoint(lo, hi) == (lo + hi) \div 2

\* line 107: the tuple appended to history
RecordZeroBased(i, lo, hi, m, fm) == << i - 1, lo, hi, m, fm >>

Record(i, lo, hi, m, fm) == << i, lo, hi, m, fm >>

\* line 114
StopNoAbs(fm, lo, hi, t) == fm < TolF(t) \/ (hi - lo) \div 2 < t

StopInclusive(fm, lo, hi, t) == Abs(fm) < TolF(t) \/ (hi - lo) \div 2 <= t

StopAbsLength(fm, lo, hi, t) == Abs(fm) < TolF(t) \/ Abs(hi - lo) \div 2 < t

StopCriterion(fm, lo, hi, t) == Abs(fm) < TolF(t) \/ (hi - lo) \div 2 < t

\* line 118
RootOnRight(va, fm) == va * fm > 0

RootOnLeft(va, fm) == va * fm < 0

\* lines 118-125: the working bounds and cached values after the update
NarrowStaleCache(lo, hi, vlo, vhi, m, fm) ==
  IF RootOnLeft(vlo, fm)
    THEN [a |-> lo, b |-> m, fa |-> vlo, fb |-> vhi]
    ELSE [a |-> m, b |-> hi, fa |-> vlo, fb |-> vhi]

Narrow(lo, hi, vlo, vhi, m, fm) ==
  IF RootOnLeft(vlo, fm)
    THEN [a |-> lo, b |-> m, fa |-> vlo, fb |-> fm]
    ELSE [a |-> m, b |-> hi, fa |-> fm, fb |-> vhi]

\* lines 93, 95, 115, 129: (value, history) if return_history else value
Returned(v, h, rh) == IF rh THEN << v, h >> ELSE << v >>

\* ------------------------------------------------------------------- Init
Init ==
  /\ f \in Funcs
  /\ a0 \in Bounds
  /\ b0 \in Bounds
  /\ tol \in Tols
  /\ max_iter \in MaxIters
  /\ verbose \in BOOLEAN
  /\ return_history \in BOOLEAN
  /\ a = a0
  /\ b = b0
  /\ fa = 0
  /\ fb = 0
  /\ k = 0
  /\ x = 0
  /\ fx = 0
  /\ history = << >>
  /\ printed = 0
  /\ evals = 0
  /\ pc = "INITIAL"
  /\ outcome = "none"
  /\ ret = << >>

\* ---------------------------------------------------------------- actions
\* lines 87-99: evaluate the endpoints, fast path, precondition
Begin ==
  /\ pc = "INITIAL"
  /\ LET va == F(f, a)
         vb == F(f, b)
         fp == FastPath(va, vb, tol)
     IN /\ fa' = va
        /\ fb' = vb
        /\ history' = << >>
        /\ evals' = evals + 2
        /\ IF fp = "a"
             THEN /\ pc' = "DONE"
                  /\ outcome' = "fast_a"
                  /\ ret' = Returned(a, << >>, return_history)
             ELSE IF fp = "b"
               THEN /\ pc' = "DONE"
                    /\ outcome' = "fast_b"
                    /\ ret' = Returned(b, << >>, return_history)
               ELSE IF SameSign(va, vb)
                 THEN /\ pc' = "DONE"
                      /\ outcome' = "ValueError"
                      /\ ret' = << >>
                 ELSE /\ pc' = "SEARCHING"
                      /\ outcome' = "none"
                      /\ ret' = << >>
  /\ UNCHANGED << args, a, b, k, x, fx, printed >>

\* lines 102-125: one iteration of the loop
Iterate ==
  /\ pc = "SEARCHING"
  /\ LoopContinues(k, max_iter)
  /\ LET i == k + 1
         m == Midpoint(a, b)
         fm == F(f, m)
         h == Append(history, Record(i, a, b, m, fm))
         n == Narrow(a, b, fa, fb, m, fm)
     IN /\ k' = i
        /\ x' = m
        /\ fx' = fm
        /\ history' = h
        /\ printed' = IF verbose THEN printed + 1 ELSE printed
        /\ evals' = evals + 1
        /\ IF StopCriterion(fm, a, b, tol)
             THEN /\ pc' = "DONE"
                  /\ outcome' = "stop"
                  /\ ret' = Returned(m, h, return_history)
                  /\ UNCHANGED << a, b, fa, fb >>
             ELSE /\ a' = n.a
                  /\ b' = n.b
                  /\ fa' = n.fa
                  /\ fb' = n.fb
                  /\ UNCHANGED << pc, outcome, ret >>
  /\ UNCHANGED args

\* lines 127-129: the loop ran max_iter times without a return
Exhausted ==
  /\ pc = "SEARCHING"
  /\ ~ LoopContinues(k, max_iter)
  /\ pc' = "DONE"
  /\ outcome' = "cap"
  /\ ret' = Returned(Midpoint(a, b), history, return_history)
  /\ UNCHANGED << args, a, b, fa, fb, k, x, fx, history, printed, evals >>

Next == Begin \/ Iterate \/ Exhausted

Spec == Init /\ [][Next]_vars

\* the call is a plain sequential computation: it keeps running until it
\* returns or raises
FairSpec == Spec /\ WF_vars(Next)

\* ------------------------------------------------------------- properties
\* Values the properties speak about, computed from the call's arguments
\* (not from the solver's cached values).
fa0 == F(f, a0)
fb0 == F(f, b0)
Bracketing == fa0 * fb0 < 0
EndpointsOutsideTol == Abs(fa0) >= tol * Scale /\ Abs(fb0) >= tol * Scale
Returns == pc = "DONE" /\ outcome # "ValueError"
Raiz == ret[1]
\* the midpoint of the caller's interval and the value of f there
x1 == (a0 + b0) \div 2
fx1 == F(f, x1)

\* C1 (as stated): for f(a)*f(b) < 0, whatever statement returns, the
\* returned root r has |f(r)| < tol or the final working interval has
\* half-length (b - a)/2 < tol.
C1_EveryReturnMeetsTolerance ==
  (Returns /\ Bracketing) =>
    (Abs(F(f, Raiz)) < tol * Scale \/ b - a < 2 * tol)

\* C1 (amended): the same, for the returns on the fast path and through a
\* stopping criterion inside the loop; the return after max_iter iterations
\* is excluded.
C1_ReturnBeforeCapMeetsTolerance ==
  (Returns /\ Bracketing /\ outcome # "cap") =>
    (Abs(F(f, Raiz)) < tol * Scale \/ b - a < 2 * tol)

\* a stop at iteration 2 or later that the function value alone does not explain
C1_Witness ==
  /\ Returns /\ Bracketing /\ outcome = "stop" /\ k >= 2
  /\ Abs(F(f, Raiz)) >= tol * Scale

\* C2 (as stated): f(a) and f(b) of the same strict sign always raise
\* ValueError with no iteration, no midpoint evaluation and empty history.
C2_SameSignAlwaysRaises ==
  (pc # "INITIAL" /\ fa0 * fb0 > 0) =>
    (outcome = "ValueError" /\ k = 0 /\ evals = 2 /\ history = << >>)

\* C2 (amended): f(a) and f(b) of the same strict sign, both of magnitude at
\* least tol, raise ValueError with no iteration, no midpoint evaluation and
\* empty history.
C2_SameSignOutsideTolRaises ==
  (pc # "INITIAL" /\ fa0 * fb0 > 0 /\ EndpointsOutsideTol) =>
    ( /\ pc = "DONE" /\ outcome = "ValueError" /\ ret = << >>
      /\ k = 0 /\ evals = 2 /\ history = << >> )

\* the error raised with an endpoint value exactly at the tolerance
C2_Witness ==
  /\ outcome = "ValueError" /\ fa0 * fb0 > 0
  /\ (Abs(fa0) = tol * Scale \/ Abs(fb0) = tol * Scale)

\* the case of C3: one iteration allowed, and it meets no stopping criterion
C3_Case ==
  /\ max_iter = 1 /\ Bracketing /\ EndpointsOutsideTol
  /\ Abs(fx1) >= tol * Scale /\ b0 - a0 >= 2 * tol

\* C3 (as stated): in that case the call returns the midpoint of the
\* caller's interval.
C3_CapReturnsOriginalMidpoint ==
  (pc = "DONE" /\ C3_Case) => (outcome # "ValueError" /\ 2 * Raiz = a0 + b0)

\* C3 (amended): in that case the call returns, without error, the midpoint
\* of the interval left by the one narrowing step: (a0 + x1)/2 if
\* f(a0)*f(x1) < 0, else (x1 + b0)/2, where x1 = (a0 + b0)/2.
C3_CapReturnsNarrowedMidpoint ==
  (pc = "DONE" /\ C3_Case) =>
    ( /\ outcome = "cap" /\ k = 1
      /\ IF fa0 * fx1 < 0 THEN 2 * Raiz = a0 + x1 ELSE 2 * Raiz = x1 + b0 )

C3_Witness == pc = "DONE" /\ C3_Case /\ outcome = "cap" /\ fa0 * fx1 < 0

\* the history as returned to the caller
RetHistory == ret[2]
IndicesContiguous(h) == \A i \in 1 .. Len(h) : h[i][1] = i

C5_FastPath ==
  (pc # "INITIAL") =>
    ( /\ (Abs(fa0) < tol * Scale =>
            /\ pc = "DONE" /\ outcome = "fast_a" /\ Raiz = a0
            /\ ret = (IF return_history THEN << a0, << >> >> ELSE << a0 >>)
            /\ k = 0 /\ evals = 2 /\ history = << >>)
      /\ ((Abs(fa0) >= tol * Scale /\ Abs(fb0) < tol * Scale) =>
            /\ pc = "DONE" /\ outcome = "fast_b" /\ Raiz = b0
            /\ ret = (IF return_history THEN << b0, << >> >> ELSE << b0 >>)
            /\ k = 0 /\ evals = 2 /\ history = << >>)
      /\ (outcome \in {"fast_a", "fast_b"} =>
            Abs(fa0) < tol * Scale \/ Abs(fb0) < tol * Scale)
      /\ (outcome = "ValueError" => EndpointsOutsideTol) )

\* both endpoints within tolerance, same sign, a # b: a is returned
C5_Witness ==
  /\ outcome = "fast_a" /\ a0 # b0
  /\ Abs(fb0) < tol * Scale /\ fa0 * fb0 > 0

\* C6: every call ends in DONE; the loop index, the history and the midpoint
\* evaluations never exceed max_iter; INITIAL goes straight to DONE only on
\* the fast path or the precondition error, and every other end is reached
\* from SEARCHING.
C6_Terminates ==
  /\ <>(pc = "DONE")
  /\ [](k <= max_iter /\ Len(history) <= max_iter /\ evals <= 2 + max_iter)
  /\ [][ /\ (pc = "INITIAL" /\ pc' = "DONE" =>
               outcome' \in {"fast_a", "fast_b", "ValueError"})
         /\ (pc' = "DONE" /\ outcome' \in {"stop", "cap"} =>
               pc = "SEARCHING")
         /\ (pc = "INITIAL" => pc' \in {"SEARCHING", "DONE"})
         /\ (pc = "SEARCHING" => k' <= max_iter) ]_vars

\* the cap is reached with every iteration used
C6_Witness ==
  pc = "DONE" /\ outcome = "cap" /\ k = max_iter /\ max_iter >= 2
    /\ evals = 2 + max_iter

\* C7: past the fast path and the sign check, at every loop head and after
\* the loop, fa = f(a), fb = f(b) and fa*fb < 0; a narrowing step moves
\* exactly one endpoint to the midpoint, together with its cached value.
C7_Bracketing ==
  /\ []( (pc = "SEARCHING" \/ outcome \in {"stop", "cap"}) =>
           (fa = F(f, a) /\ fb = F(f, b) /\ fa * fb < 0) )
  /\ [][ (pc = "SEARCHING" /\ pc' = "SEARCHING") =>
           \/ ( /\ fa * fx' < 0
                /\ b' = x' /\ fb' = fx' /\ b' # b
                /\ a' = a /\ fa' = fa )
           \/ ( /\ ~ (fa * fx' < 0)
                /\ a' = x' /\ fa' = fx' /\ a' # a
                /\ b' = b /\ fb' = fb ) ]_vars

\* both endpoints have been moved
C7_Witness == pc = "SEARCHING" /\ k >= 2 /\ a # a0 /\ b # b0

Lo0 == IF a0 <= b0 THEN a0 ELSE b0
Hi0 == IF a0 <= b0 THEN b0 ELSE a0
Inside0(v) == Lo0 <= v /\ v <= Hi0

\* C8: after k narrowing steps b - a = (b0 - a0)/2^k; each recorded interval
\* is a half [a, x] or [x, b] of the one before, and every recorded bound
\* and midpoint lies in the caller's interval.
C8_Halving ==
  /\ (pc = "SEARCHING" \/ outcome = "cap") => (b - a) * 2 ^ k = b0 - a0
  /\ Inside0(a) /\ Inside0(b)
  /\ \A i \in 1 .. Len(history) :
       /\ (history[i][3] - history[i][2]) * 2 ^ (i - 1) = b0 - a0
       /\ 2 * history[i][4] = history[i][2] + history[i][3]
       /\ Inside0(history[i][2]) /\ Inside0(history[i][3])
       /\ Inside0(history[i][4])
  /\ \A i \in 1 .. Len(history) - 1 :
       \/ history[i + 1][2] = history[i][2] /\ history[i + 1][3] = history[i][4]
       \/ history[i + 1][2] = history[i][4] /\ history[i + 1][3] = history[i][3]
  /\ pc = "SEARCHING" /\ k >= 1 =>
       \/ a = history[k][2] /\ b = history[k][4]
       \/ a = history[k][4] /\ b = history[k][3]

C8_Witness == a0 < b0 /\ Len(history) >= 3 /\ a # a0 /\ b # b0

\* the smallest K >= 1 with (b0 - a0)/2^K < tol
IsEnough(n) == b0 - a0 < tol * 2 ^ n
KCandidates == 1 .. (8 * MaxAbs + 1)
KMin == CHOOSE n \in KCandidates :
          IsEnough(n) /\ \A j \in 1 .. n - 1 : ~ IsEnough(j)
C9_Case == a0 < b0 /\ Bracketing /\ max_iter >= KMin
\* the test of line 114 at iteration i, on the interval (b0 - a0)/2^(i-1)
StopsAt(i, v) == Abs(v) < tol * Scale \/ b0 - a0 < tol * 2 ^ i

C10_Case == a0 > b0 /\ Bracketing /\ EndpointsOutsideTol

\* C10: with a > b past the fast path and the sign check, the first
\* iteration returns the midpoint of the caller's bounds; the bounds are
\* never narrowed.
C10_ReversedBounds ==
  /\ C10_Case => (a = a0 /\ b = b0 /\ k <= 1 /\ outcome # "cap")
  /\ (pc = "DONE" /\ C10_Case) =>
       ( /\ outcome = "stop" /\ k = 1 /\ Len(history) = 1
         /\ history[1] = << 1, a0, b0, x1, fx1 >>
         /\ 2 * Raiz = a0 + b0 )

\* a wide reversed interval whose midpoint is far from a root
C10_Witness ==
  /\ pc = "DONE" /\ C10_Case /\ outcome = "stop"
  /\ a0 - b0 >= 4 * tol /\ Abs(fx1) >= 2 * tol * Scale

====
